---- MODULE Spec2Model ----
(***************************************************************************)
(* Model of the alignment viewer of seqtools (src/src/viewer.rs): the App  *)
(* struct, its construction (App::new, with the ruler loop) and its        *)
(* mutators (set_frame, the eight scroll operations, the three toggles).   *)
(* All App integers are u16; the arithmetic keeps that width.              *)
(* render_view and run_app are modelled one fallible step at a time: the   *)
(* terminal setup, the draw / poll / read / dispatch loop with its tick,   *)
(* and the restoration steps; every call that can fail may fail.           *)
(* Alphabet::colorize and the ruler loop (one iteration per step, up to    *)
(* maxlen = 65535) also run on their own.                                  *)
(***************************************************************************)
EXTENDS Integers, Sequences, FiniteSets, TLC

VARIABLES
    args,             \* the (ids, seqs, title) handed to App::new
    app,              \* the App struct, once pc # "new"
    pc,               \* "new" (before App::new), "running", "panicked"
    overflow_checks,  \* build profile: TRUE = overflow panics, FALSE = it wraps
    last_op,          \* history: name of the operation applied last
    overflowed,       \* history: the last operation's plain u16 arithmetic left 0..65535
    calls,            \* history: operations applied so far (kept by the step harness only)
    loc,              \* position in render_view / run_app ("harness": App methods called directly)
    term,             \* the terminal: raw mode, alternate screen, mouse capture, cursor shown
    res,              \* what run_app returned: "none", "ok", "err_draw", "err_input"
    ret,              \* what render_view returned: "none", "ok" or the error
    printed,          \* what render_view printed of run_app's error
    attempted,        \* history: the restoration calls render_view has made
    panel,            \* the rectangle alignment_layout[1] of the last render pass
    drawn,            \* history: the scroll offsets and flags the last render pass read
    renders,          \* history: render passes since the last key dispatch (capped)
    elapsed,          \* last_tick.elapsed(), in ms
    timeout,          \* the poll timeout computed in this iteration, in ms
    since_render,     \* history: ms since the last render pass began
    event,            \* the event run_app read last
    dispatched,       \* history: a key event has been dispatched
    paint,            \* a call of Alphabet::colorize: its receiver, argument and result
    rl                \* the ruler loop of App::new, run one iteration at a time

loopvars == <<loc, term, res, ret, printed, attempted, panel, drawn, renders,
              elapsed, timeout, since_render, event, dispatched>>

\* the functions that are run on their own
purevars == <<paint, rl>>

vars == <<args, app, pc, overflow_checks, last_op, overflowed, calls, loopvars, purevars>>

----------------------------------------------------------------------------
(* Bounds of the model *)

MaxSeqs == 3
MaxSeqLen == 4
MaxFrameHeight == 3
MaxFrameWidth == 4
MaxRulerLen == 105
MaxCalls == 8
MaxLoopSeqs == 2
MaxLoopSeqLen == 2
MaxLoopFrame == 2
RenderCap == 2
TimeQuantum == 250
MaxDrawTime == 500
MaxAlphaSeqs == 2
MaxAlphaLen == 2
MaxWide == 1
MaxShortRuler == 20
ExtraIterations == 3

----------------------------------------------------------------------------
(* u16 arithmetic *)

U16Max == 65535

as_u16(n) == n % (U16Max + 1)

saturating_sub(a, b) == IF a > b THEN a - b ELSE 0

\* plain `a - b` on u16 in a build without overflow checks
wrapping_sub(a, b) == (a - b + (U16Max + 1)) % (U16Max + 1)

\* plain `a + b` on u16 in a build without overflow checks
wrapping_add(a, b) == (a + b) % (U16Max + 1)

----------------------------------------------------------------------------
(* Strings are sequences of one-character strings *)

RECURSIVE Repeat(_, _)
Repeat(c, n) == IF n = 0 THEN <<>> ELSE <<c>> \o Repeat(c, n - 1)

DigitChars == <<"0", "1", "2", "3", "4", "5", "6", "7", "8", "9">>

\* format!("{i}"): the decimal digits of i, most significant first
RECURSIVE format(_)
format(n) == IF n < 10 THEN <<DigitChars[n + 1]>>
             ELSE format(n \div 10) \o <<DigitChars[(n % 10) + 1]>>

RECURSIVE Pow10(_)
Pow10(d) == IF d = 0 THEN 1 ELSE 10 * Pow10(d - 1)

\* (x as f32).log10().ceil() as u16 for an integer x >= 1: the least d with 10^d >= x
log10_ceil(x) == CHOOSE d \in 0..5 : Pow10(d) >= x /\ (d = 0 \/ Pow10(d - 1) < x)

NUCLEOTIDES == {"A", "a", "T", "t", "C", "c", "G", "g", "U", "u", "-"}

LowerCase == <<"a", "b", "c", "d", "e", "f", "g", "h", "i", "j", "k", "l", "m",
               "n", "o", "p", "q", "r", "s", "t", "u", "v", "w", "x", "y", "z">>

UpperCase == <<"A", "B", "C", "D", "E", "F", "G", "H", "I", "J", "K", "L", "M",
               "N", "O", "P", "Q", "R", "S", "T", "U", "V", "W", "X", "Y", "Z">>

\* char::to_ascii_uppercase: a..z to A..Z, every other character to itself
to_ascii_uppercase(c) ==
    IF \E k \in 1..26 : LowerCase[k] = c
    THEN UpperCase[CHOOSE k \in 1..26 : LowerCase[k] = c]
    ELSE c

----------------------------------------------------------------------------
(* Alphabet::colorize *)

colorize_nucleic(c) ==
    CASE c = "A"          -> "Red"
      [] c = "C"          -> "Yellow"
      [] c = "G"          -> "Blue"
      [] c \in {"T", "U"} -> "Green"
      [] OTHER            -> "White"

colorize_protein(c) ==
    CASE c \in {"A", "I", "L", "M", "F", "W", "V"} -> "Blue"
      [] c \in {"K", "R"}                          -> "Red"
      [] c \in {"E", "D"}                          -> "Magenta"
      [] c \in {"N", "Q", "S", "T"}                -> "Green"
      [] c = "C"                                   -> "LightMagenta"
      [] c = "G"                                   -> "LightRed"
      [] c = "P"                                   -> "Yellow"
      [] c \in {"H", "Y"}                          -> "Cyan"
      [] OTHER                                     -> "White"

\* mutant: the character is matched as it is
colorize_as_is(alphabet, c) ==
    IF alphabet = "Nucleic" THEN colorize_nucleic(c) ELSE colorize_protein(c)

colorize(alphabet, c) ==
    LET u == to_ascii_uppercase(c)
    IN  IF alphabet = "Nucleic" THEN colorize_nucleic(u) ELSE colorize_protein(u)

----------------------------------------------------------------------------
(* App::new *)

SeqMax(S) == IF S = {} THEN 0 ELSE CHOOSE m \in S : \A n \in S : n <= m

new_maxlen(seqs) == SeqMax({as_u16(Len(seqs[k])) : k \in 1..Len(seqs)})

new_nseqs(seqs) == as_u16(Len(seqs))

\* mutant: only the upper-case nucleotides count as nucleotides
new_alphabet_upper(seqs) ==
    IF \E k \in 1..Len(seqs) : \E j \in 1..Len(seqs[k]) :
          seqs[k][j] \notin {"A", "T", "C", "G", "U", "-"}
    THEN "Protein" ELSE "Nucleic"

new_alphabet(seqs) ==
    IF \E k \in 1..Len(seqs) : \E j \in 1..Len(seqs[k]) : seqs[k][j] \notin NUCLEOTIDES
    THEN "Protein" ELSE "Nucleic"

\* mutant: the counter is not advanced over the numeral's extra digits
ruler_step_no_skip(st) ==
    LET numeral == st.i % 10 = 0
    IN  [i          |-> wrapping_add(st.i, 1),
         ruler      |-> IF numeral THEN st.ruler \o format(st.i) ELSE st.ruler \o <<" ">>,
         overflowed |-> st.overflowed \/ st.i + 1 > U16Max]

\* one iteration of `while i <= maxlen { ... }`, on st = [i, ruler, overflowed]
ruler_step(st) ==
    LET numeral == st.i % 10 = 0
        digits  == log10_ceil(st.i + 1)
        j       == IF numeral THEN wrapping_add(st.i, wrapping_sub(digits, 1)) ELSE st.i
        ovf     == \/ numeral /\ (digits < 1 \/ st.i + wrapping_sub(digits, 1) > U16Max)
                   \/ j + 1 > U16Max
    IN  [i          |-> wrapping_add(j, 1),
         ruler      |-> IF numeral THEN st.ruler \o format(st.i) ELSE st.ruler \o <<" ">>,
         overflowed |-> st.overflowed \/ ovf]

RECURSIVE ruler_loop(_, _, _)
ruler_loop(st, maxlen, checks) ==
    IF st.overflowed /\ checks THEN st
    ELSE IF st.i <= maxlen THEN ruler_loop(ruler_step(st), maxlen, checks)
    ELSE st

new_ruler(maxlen, checks) ==
    ruler_loop([i |-> 1, ruler |-> <<" ">>, overflowed |-> FALSE], maxlen, checks)

new(a, checks) ==
    [yscroll              |-> 0,
     xscroll              |-> 0,
     title                |-> a.title,
     ids                  |-> a.ids,
     seqs                 |-> a.seqs,
     maxlen               |-> new_maxlen(a.seqs),
     nseqs                |-> new_nseqs(a.seqs),
     frame_height         |-> 0,
     frame_width          |-> 0,
     alphabet             |-> new_alphabet(a.seqs),
     dark                 |-> TRUE,
     show_help            |-> FALSE,
     highlight_background |-> TRUE,
     ruler                |-> new_ruler(new_maxlen(a.seqs), checks).ruler]

new_overflows(a, checks) == new_ruler(new_maxlen(a.seqs), checks).overflowed

----------------------------------------------------------------------------
(* App mutators, as functions of the struct *)

\* mutant: the ruler is rebuilt to the width of the frame
set_frame_new_ruler(a, rect) ==
    [a EXCEPT !.frame_height = rect.height, !.frame_width = rect.width,
              !.ruler = Repeat(" ", rect.width)]

set_frame(a, rect) ==
    [a EXCEPT !.frame_height = rect.height, !.frame_width = rect.width]

\* `self.frame_width - 2` is a plain u16 subtraction
inner_width_overflows(a) == a.frame_width < 2

inner_width(a) == wrapping_sub(a.frame_width, 2)

\* mutant: the bound is compared with <= instead of <
scroll_right_le(a) ==
    IF a.xscroll <= saturating_sub(a.maxlen, inner_width(a))
    THEN [a EXCEPT !.xscroll = wrapping_add(@, 1)]
    ELSE a

\* mutant: the step is taken without looking at the bound
scroll_right_unbounded(a) == [a EXCEPT !.xscroll = wrapping_add(@, 1)]

scroll_right(a) ==
    IF a.xscroll < saturating_sub(a.maxlen, inner_width(a))
    THEN [a EXCEPT !.xscroll = wrapping_add(@, 1)]
    ELSE a

scroll_right_overflows(a) ==
    \/ inner_width_overflows(a)
    \/ a.xscroll < saturating_sub(a.maxlen, inner_width(a)) /\ a.xscroll + 1 > U16Max

scroll_left(a) == [a EXCEPT !.xscroll = saturating_sub(@, 1)]

\* mutant: the step is taken without looking at the bound
scroll_down_unbounded(a) == [a EXCEPT !.yscroll = wrapping_add(@, 1)]

\* mutant: the bound ignores the frame height
scroll_down_no_frame(a) ==
    IF a.yscroll < a.nseqs
    THEN [a EXCEPT !.yscroll = wrapping_add(@, 1)]
    ELSE a

scroll_down(a) ==
    IF a.yscroll < saturating_sub(a.nseqs, a.frame_height)
    THEN [a EXCEPT !.yscroll = wrapping_add(@, 1)]
    ELSE a

scroll_down_overflows(a) ==
    a.yscroll < saturating_sub(a.nseqs, a.frame_height) /\ a.yscroll + 1 > U16Max

scroll_up(a) == [a EXCEPT !.yscroll = saturating_sub(@, 1)]

\* mutant: jumps to the top-left corner
scroll_top_corner(a) == [a EXCEPT !.yscroll = 0, !.xscroll = 0]

scroll_top(a) == [a EXCEPT !.yscroll = 0]

\* mutant: the jump is relative to the current offset
scroll_bottom_relative(a) ==
    [a EXCEPT !.yscroll = wrapping_add(@, saturating_sub(a.nseqs, a.frame_height))]

scroll_bottom(a) == [a EXCEPT !.yscroll = saturating_sub(a.nseqs, a.frame_height)]

scroll_start(a) == [a EXCEPT !.xscroll = 0]

\* mutant: the outer subtraction is plain (wrapping) instead of saturating
scroll_end_wrapping(a) == [a EXCEPT !.xscroll = wrapping_sub(a.maxlen, inner_width(a))]

scroll_end(a) == [a EXCEPT !.xscroll = saturating_sub(a.maxlen, inner_width(a))]

scroll_end_overflows(a) == inner_width_overflows(a)

toggle_dark(a) == [a EXCEPT !.dark = ~@]

\* mutant: shows the help instead of flipping it
toggle_help_show(a) == [a EXCEPT !.show_help = TRUE]

toggle_help(a) == [a EXCEPT !.show_help = ~@]

toggle_highlight(a) == [a EXCEPT !.highlight_background = ~@]

----------------------------------------------------------------------------
(* Inputs *)

\* n sequences, the first of length len, the others shorter
InputArgs(n, len) ==
    [ids   |-> [k \in 1..n |-> <<"S">> \o format(k)],
     seqs  |-> [k \in 1..n |-> Repeat("A", IF k = 1 THEN len ELSE len \div 2)],
     title |-> "aln.fa"]

Inputs == {InputArgs(n, len) : n \in 0..MaxSeqs, len \in 0..MaxSeqLen}

\* the scenario of the specification: two sequences of length 9
ScenarioArgs ==
    [ids   |-> <<<<"S", "e", "q", "1">>, <<"S", "e", "q", "2">>>>,
     seqs  |-> <<Repeat("A", 9), Repeat("C", 9)>>,
     title |-> "aln.fa"]

ScenarioRect == [height |-> 2, width |-> 5]

\* every string of at most n characters of cs
Strings(cs, n) == UNION {[1..k -> cs] : k \in 0..n}

\* nucleotides and other residues, in both cases, and the gap
AlphabetChars == {"A", "c", "g", "T", "u", "-", "D", "e", "N", "x"}

\* n sequences: a nucleotide sequence everywhere but at position k, where s is
AlphabetSeqs(n, k, s) == [j \in 1..n |-> IF j = k THEN s ELSE <<"a", "C", "-">>]

\* the classification examples of the specification
ScenarioAlphabetSeqs ==
    {<<<<"A", "C", "G", "T">>, <<"T", "T", "T", "T">>>>, <<<<"A", "C", "D", "E">>>>}

AlphabetInputs ==
    {[ids   |-> [k \in 1..Len(ss) |-> <<"S">> \o format(k)],
      seqs  |-> ss,
      title |-> "aln.fa"] :
        ss \in ScenarioAlphabetSeqs \cup {<<>>} \cup
               {AlphabetSeqs(n[1], n[2], s) :
                    n \in {m \in (1..MaxAlphaSeqs) \X (1..MaxAlphaSeqs) : m[2] <= m[1]},
                    s \in Strings(AlphabetChars, MaxAlphaLen)}}

\* one sequence of len characters, or n sequences of at most one character,
\* with len and n just past the range of u16
WideArgs(n, len) ==
    [ids   |-> [k \in 1..n |-> <<"S">>],
     seqs  |-> [k \in 1..n |-> [j \in 1..(IF k = 1 THEN len ELSE 0) |-> "A"]],
     title |-> "aln.fa"]

WideInputs ==
    {WideArgs(1, U16Max + 1 + d) : d \in 0..MaxWide}
        \cup {WideArgs(U16Max + 1 + d, 1) : d \in 0..MaxWide}
        \cup {WideArgs(n, len) : n \in 0..(MaxSeqs + 1), len \in 0..(MaxSeqLen + 1)}

RulerInputs == {InputArgs(1, len) : len \in 0..MaxRulerLen}

Rects == [height : 0..MaxFrameHeight, width : 0..MaxFrameWidth]

\* value of `app` before App::new has run
NoApp == [unbuilt |-> TRUE]

\* the terminal as render_view finds it: cooked mode, main screen
CookedTerm == [raw |-> FALSE, alt |-> FALSE, mouse |-> FALSE, cursor |-> TRUE]

\* what a render pass reads of the model
View(a) ==
    [xscroll              |-> a.xscroll,
     yscroll              |-> a.yscroll,
     dark                 |-> a.dark,
     show_help            |-> a.show_help,
     highlight_background |-> a.highlight_background]

\* value of `event` before the first read
NoEvent == [kind |-> "none", code |-> "none"]

\* value of `drawn` before the first render pass
NotDrawn == [undrawn |-> TRUE]

\* value of `paint` before colorize is called
NoPaint == [unpainted |-> TRUE]

\* value of `rl` before the ruler loop is entered
NoRulerLoop == [unstarted |-> TRUE]

\* no function is run on its own
PureStart ==
    /\ paint = NoPaint
    /\ rl = NoRulerLoop

\* the loop variables before render_view has done anything, at position l
LoopStart(l) ==
    /\ loc = l
    /\ term = CookedTerm
    /\ res = "none"
    /\ ret = "none"
    /\ printed = "none"
    /\ attempted = {}
    /\ panel = [height |-> 0, width |-> 0]
    /\ drawn = NotDrawn
    /\ renders = 0
    /\ elapsed = 0
    /\ timeout = 0
    /\ since_render = 0
    /\ event = NoEvent
    /\ dispatched = FALSE

----------------------------------------------------------------------------
(* Operations *)

\* a call of an App method: a build with overflow checks panics where the
\* plain arithmetic leaves u16, a build without them goes on with the wrapped value
Call(op, overflows, result) ==
    /\ pc = "running"
    /\ last_op' = op
    /\ overflowed' = overflows
    /\ IF overflows /\ overflow_checks
       THEN pc' = "panicked" /\ app' = app
       ELSE pc' = pc /\ app' = result
    /\ UNCHANGED <<args, overflow_checks, purevars>>

\* App::new(ids, seqs, title)
Construct ==
    /\ pc = "new"
    /\ last_op' = "new"
    /\ overflowed' = new_overflows(args, overflow_checks)
    /\ IF new_overflows(args, overflow_checks) /\ overflow_checks
       THEN pc' = "panicked" /\ app' = app
       ELSE pc' = "running" /\ app' = new(args, overflow_checks)
    /\ UNCHANGED <<args, overflow_checks, calls, purevars>>

New == Construct /\ UNCHANGED loopvars

SetFrame ==
    \E rect \in Rects :
        Call("set_frame", FALSE, set_frame(app, rect)) /\ UNCHANGED <<calls, loopvars>>

ScrollRight ==
    Call("scroll_right", scroll_right_overflows(app), scroll_right(app)) /\ UNCHANGED <<calls, loopvars>>

ScrollLeft == Call("scroll_left", FALSE, scroll_left(app)) /\ UNCHANGED <<calls, loopvars>>

ScrollDown ==
    Call("scroll_down", scroll_down_overflows(app), scroll_down(app)) /\ UNCHANGED <<calls, loopvars>>

ScrollUp == Call("scroll_up", FALSE, scroll_up(app)) /\ UNCHANGED <<calls, loopvars>>

ScrollTop == Call("scroll_top", FALSE, scroll_top(app)) /\ UNCHANGED <<calls, loopvars>>

ScrollBottom == Call("scroll_bottom", FALSE, scroll_bottom(app)) /\ UNCHANGED <<calls, loopvars>>

ScrollStart == Call("scroll_start", FALSE, scroll_start(app)) /\ UNCHANGED <<calls, loopvars>>

ScrollEnd ==
    Call("scroll_end", scroll_end_overflows(app), scroll_end(app)) /\ UNCHANGED <<calls, loopvars>>

\* the step harness: repeated scroll_right / scroll_left calls, recorded in `calls`
StepScrollRight ==
    /\ Len(calls) < MaxCalls
    /\ Call("scroll_right", scroll_right_overflows(app), scroll_right(app))
    /\ calls' = Append(calls, "scroll_right")
    /\ UNCHANGED loopvars

StepScrollLeft ==
    /\ Len(calls) < MaxCalls
    /\ Call("scroll_left", FALSE, scroll_left(app))
    /\ calls' = Append(calls, "scroll_left")
    /\ UNCHANGED loopvars

----------------------------------------------------------------------------
(* run_app: the key bindings *)

\* let tick_rate = Duration::from_millis(1000)
TickRate == 1000

Keys == {"Q", "q", "T", "t", "H", "h", "R", "r", "Up", "Down", "Right", "Left",
         "PageUp", "PageDown", "Home", "End", "?", "x", "Esc"}

KeyEvent(k) == [kind |-> "key", code |-> k]

\* events that are not key events (mouse capture is on)
OtherEvents == {[kind |-> "mouse", code |-> "none"], [kind |-> "resize", code |-> "none"]}

key_quits(k) == k \in {"Q", "q"}

\* the name of the mutator the match arm of key k calls
key_op(k) ==
    CASE k \in {"T", "t"} -> "toggle_dark"
      [] k \in {"H", "h"} -> "toggle_help"
      [] k \in {"R", "r"} -> "toggle_highlight"
      [] k = "Up"         -> "scroll_up"
      [] k = "Down"       -> "scroll_down"
      [] k = "Right"      -> "scroll_right"
      [] k = "Left"       -> "scroll_left"
      [] k = "PageUp"     -> "scroll_top"
      [] k = "PageDown"   -> "scroll_bottom"
      [] k = "Home"       -> "scroll_start"
      [] k = "End"        -> "scroll_end"
      [] OTHER            -> "unbound"

\* the struct after the match arm of key k
key_apply(k, a) ==
    CASE k \in {"T", "t"} -> toggle_dark(a)
      [] k \in {"H", "h"} -> toggle_help(a)
      [] k \in {"R", "r"} -> toggle_highlight(a)
      [] k = "Up"         -> scroll_up(a)
      [] k = "Down"       -> scroll_down(a)
      [] k = "Right"      -> scroll_right(a)
      [] k = "Left"       -> scroll_left(a)
      [] k = "PageUp"     -> scroll_top(a)
      [] k = "PageDown"   -> scroll_bottom(a)
      [] k = "Home"       -> scroll_start(a)
      [] k = "End"        -> scroll_end(a)
      [] OTHER            -> a

key_overflows(k, a) ==
    CASE k = "Down"  -> scroll_down_overflows(a)
      [] k = "Right" -> scroll_right_overflows(a)
      [] k = "End"   -> scroll_end_overflows(a)
      [] OTHER       -> FALSE

\* mutant: waits a whole tick whatever has elapsed
poll_timeout_whole_tick(e) == TickRate

\* mutant: the mouse wheel scrolls down
event_apply_wheel(e, a) ==
    IF e.kind = "key" THEN key_apply(e.code, a)
    ELSE IF e.kind = "mouse" THEN scroll_down(a)
    ELSE a

\* the struct after `if let Event::Key(key) = ... { match key.code ... }`
event_apply(e, a) == IF e.kind = "key" THEN key_apply(e.code, a) ELSE a

\* tick_rate.checked_sub(last_tick.elapsed()).unwrap_or_else(|| Duration::from_secs(0))
poll_timeout(e) == IF TickRate >= e THEN TickRate - e ELSE 0

\* if last_tick.elapsed() >= tick_rate { last_tick = Instant::now() }
tick_reset(e) == IF e >= TickRate THEN 0 ELSE e

loop_head_poll == "poll"

\* where `loop { ... }` starts an iteration
loop_head == "draw"

----------------------------------------------------------------------------
(* render_view and run_app, one action per fallible step *)

appvars == <<args, app, pc, overflow_checks, last_op, overflowed, calls>>

LoopInputs == {InputArgs(n, len) : n \in 0..MaxLoopSeqs, len \in 0..MaxLoopSeqLen}

\* the rectangle the layout gives the alignment panel, terminal size permitting
LoopRects == [height : 0..MaxLoopFrame, width : 0..MaxLoopFrame]

\* the characters colorize is called on: letters of both cases, the gap,
\* and characters that are no residue
ColorChars ==
    {LowerCase[k] : k \in 1..26} \cup {UpperCase[k] : k \in 1..26} \cup {"-", "*", ".", "1"}

\* let color = app.alphabet.colorize(c)
Colorize ==
    /\ paint # NoPaint
    /\ paint.color = "none"
    /\ paint' = [paint EXCEPT !.color = colorize(paint.alphabet, paint.c)]
    /\ UNCHANGED <<appvars, loopvars, rl>>

\* the ruler loop at its head: counter i, length of the ruler so far (the
\* " " it starts with included), iterations done
RulerLoopStart(maxlen) ==
    [maxlen |-> maxlen, i |-> 1, len |-> 1, overflowed |-> FALSE, iterations |-> 0,
     at |-> "while"]

\* one iteration of `while i <= maxlen { ... }`; the ruler is kept by its length
RulerIterate ==
    /\ rl # NoRulerLoop
    /\ rl.at = "while"
    /\ rl.i <= rl.maxlen
    /\ rl.iterations < rl.maxlen + ExtraIterations
    /\ LET st == ruler_step([i |-> rl.i, ruler |-> <<>>, overflowed |-> FALSE])
       IN  rl' = [maxlen     |-> rl.maxlen,
                  i          |-> st.i,
                  len        |-> rl.len + Len(st.ruler),
                  overflowed |-> st.overflowed,
                  iterations |-> rl.iterations + 1,
                  at         |-> IF st.overflowed /\ overflow_checks
                                 THEN "panicked" ELSE "while"]
    /\ UNCHANGED <<appvars, loopvars, paint>>

\* the loop condition fails
RulerExit ==
    /\ rl # NoRulerLoop
    /\ rl.at = "while"
    /\ rl.i > rl.maxlen
    /\ rl' = [rl EXCEPT !.at = "done"]
    /\ UNCHANGED <<appvars, loopvars, paint>>

\* `?` on a failed call: the function returns the error at once
Return(r) ==
    /\ loc' = "returned"
    /\ ret' = r

\* enable_raw_mode()?
EnableRaw ==
    /\ loc = "enable_raw"
    /\ \/ /\ term' = [term EXCEPT !.raw = TRUE]
          /\ loc' = "enter_alt"
          /\ ret' = ret
       \/ /\ Return("err_enable_raw")
          /\ term' = term
    /\ UNCHANGED <<appvars, purevars, res, printed, attempted, panel, drawn, renders,
                   elapsed, timeout, since_render, event, dispatched>>

\* execute!(stdout, EnterAlternateScreen, EnableMouseCapture)?
EnterAlt ==
    /\ loc = "enter_alt"
    /\ \/ /\ term' = [term EXCEPT !.alt = TRUE, !.mouse = TRUE]
          /\ loc' = "terminal_new"
          /\ ret' = ret
       \/ /\ Return("err_enter_alt")
          /\ term' = term
    /\ UNCHANGED <<appvars, purevars, res, printed, attempted, panel, drawn, renders,
                   elapsed, timeout, since_render, event, dispatched>>

\* let mut terminal = Terminal::new(backend)?
TerminalNew ==
    /\ loc = "terminal_new"
    /\ \/ /\ loc' = "app_new"
          /\ ret' = ret
       \/ Return("err_terminal_new")
    /\ UNCHANGED <<appvars, purevars, term, res, printed, attempted, panel, drawn, renders,
                   elapsed, timeout, since_render, event, dispatched>>

\* let app = App::new(...); run_app starts with last_tick = Instant::now()
AppNew ==
    /\ loc = "app_new"
    /\ Construct
    /\ loc' = IF new_overflows(args, overflow_checks) /\ overflow_checks
              THEN "aborted" ELSE loop_head
    /\ elapsed' = 0
    /\ UNCHANGED <<term, res, ret, printed, attempted, panel, drawn, renders,
                   timeout, since_render, event, dispatched>>

\* terminal.draw(|f| ui(f, &mut app))?  and the timeout computed after it;
\* ui calls set_frame with the rectangle of the alignment panel
Draw(rects, durations) ==
    /\ loc = "draw"
    /\ \/ /\ \E rect \in rects, d \in durations :
                /\ Call("set_frame", FALSE, set_frame(app, rect))
                /\ panel' = rect
                /\ elapsed' = elapsed + d
                /\ since_render' = d
                /\ timeout' = poll_timeout(elapsed + d)
          /\ drawn' = View(app)
          /\ renders' = IF renders < RenderCap THEN renders + 1 ELSE RenderCap
          /\ term' = [term EXCEPT !.cursor = FALSE]
          /\ loc' = "poll"
          /\ res' = res
          /\ event' = NoEvent
          /\ dispatched' = dispatched
       \/ /\ res' = "err_draw"
          /\ loc' = "restore_raw"
          /\ UNCHANGED <<appvars, purevars, term, panel, drawn, renders, elapsed, timeout,
                         since_render, event, dispatched>>
    /\ UNCHANGED <<calls, ret, printed, attempted>>

\* if crossterm::event::poll(timeout)?  with no event: the tick check follows
Poll(quantum) ==
    /\ loc = "poll"
    /\ \/ /\ \E d \in {k * quantum : k \in 0..(timeout \div quantum)} :
                /\ elapsed' = elapsed + d
                /\ since_render' = since_render + d
          /\ loc' = "read"
          /\ res' = res
       \/ /\ elapsed' = tick_reset(elapsed + timeout)
          /\ since_render' = since_render + timeout
          /\ loc' = loop_head
          /\ res' = res
       \/ /\ res' = "err_input"
          /\ loc' = "restore_raw"
          /\ UNCHANGED <<elapsed, since_render>>
    /\ UNCHANGED <<appvars, purevars, term, ret, printed, attempted, panel, drawn, renders,
                   timeout, event, dispatched>>

\* the match on key.code
Dispatch(k) ==
    /\ loc = "read"
    /\ event' = KeyEvent(k)
    /\ dispatched' = TRUE
    /\ IF key_quits(k)
       THEN /\ res' = "ok"
            /\ loc' = "restore_raw"
            /\ UNCHANGED <<appvars, purevars, renders, elapsed>>
       ELSE /\ Call(key_op(k), key_overflows(k, app), key_apply(k, app))
            /\ calls' = calls
            /\ res' = res
            /\ renders' = 0
            /\ IF key_overflows(k, app) /\ overflow_checks
               THEN loc' = "aborted" /\ elapsed' = elapsed
               ELSE loc' = loop_head /\ elapsed' = tick_reset(elapsed)
    /\ UNCHANGED <<term, ret, printed, attempted, panel, drawn, timeout, since_render>>

\* if let Event::Key(key) = event::read()?
Read(keys) ==
    \/ \E k \in keys : Dispatch(k)
    \/ /\ loc = "read"
       /\ \E e \in OtherEvents :
             /\ event' = e
             /\ app' = event_apply(e, app)
       /\ loc' = loop_head
       /\ elapsed' = tick_reset(elapsed)
       /\ UNCHANGED <<args, pc, overflow_checks, last_op, overflowed, calls, purevars,
                      term, res, ret, printed, attempted, panel, drawn, renders,
                      timeout, since_render, dispatched>>
    \/ /\ loc = "read"
       /\ res' = "err_input"
       /\ loc' = "restore_raw"
       /\ UNCHANGED <<appvars, purevars, term, ret, printed, attempted, panel, drawn, renders,
                      elapsed, timeout, since_render, event, dispatched>>

\* run_app has returned: `app` was moved into it and is dropped with its
\* other locals (last_tick, timeout, key)
RunAppReturned ==
    /\ app' = NoApp
    /\ pc' = "done"
    /\ last_op' = "none"
    /\ overflowed' = FALSE
    /\ panel' = [height |-> 0, width |-> 0]
    /\ drawn' = NotDrawn
    /\ renders' = 0
    /\ elapsed' = 0
    /\ timeout' = 0
    /\ since_render' = 0
    /\ event' = NoEvent
    /\ dispatched' = FALSE
    /\ UNCHANGED <<args, overflow_checks, calls, purevars>>

\* let res = run_app(...);  disable_raw_mode()?
RestoreRaw ==
    /\ loc = "restore_raw"
    /\ RunAppReturned
    /\ attempted' = attempted \cup {"disable_raw_mode"}
    /\ \/ /\ term' = [term EXCEPT !.raw = FALSE]
          /\ loc' = "restore_leave"
          /\ ret' = ret
       \/ /\ Return("err_disable_raw")
          /\ term' = term
    /\ UNCHANGED <<res, printed>>

\* execute!(terminal.backend_mut(), LeaveAlternateScreen, DisableMouseCapture)?
RestoreLeave ==
    /\ loc = "restore_leave"
    /\ attempted' = attempted \cup {"leave_alternate_screen"}
    /\ \/ /\ term' = [term EXCEPT !.alt = FALSE, !.mouse = FALSE]
          /\ loc' = "show_cursor"
          /\ ret' = ret
       \/ /\ Return("err_leave_alt")
          /\ term' = term
    /\ UNCHANGED <<appvars, purevars, res, printed, panel, drawn, renders, elapsed, timeout,
                   since_render, event, dispatched>>

\* terminal.show_cursor()?
ShowCursor ==
    /\ loc = "show_cursor"
    /\ attempted' = attempted \cup {"show_cursor"}
    /\ \/ /\ term' = [term EXCEPT !.cursor = TRUE]
          /\ loc' = "report"
          /\ ret' = ret
       \/ /\ Return("err_show_cursor")
          /\ term' = term
    /\ UNCHANGED <<appvars, purevars, res, printed, panel, drawn, renders, elapsed, timeout,
                   since_render, event, dispatched>>

\* if let Err(err) = res { println!("{:?}", err) }  Ok(())
Report ==
    /\ loc = "report"
    /\ printed' = IF res = "ok" THEN "none" ELSE res
    /\ Return("ok")
    /\ UNCHANGED <<appvars, purevars, term, res, attempted, panel, drawn, renders, elapsed,
                   timeout, since_render, event, dispatched>>

----------------------------------------------------------------------------
(* Specifications *)

\* the state right after App::new
InitScroll ==
    /\ args \in Inputs
    /\ overflow_checks \in BOOLEAN
    /\ app = new(args, overflow_checks)
    /\ pc = "running"
    /\ last_op = "new"
    /\ overflowed = FALSE
    /\ calls = <<>>
    /\ LoopStart("harness")
    /\ PureStart

NextScroll ==
    \/ SetFrame
    \/ ScrollRight
    \/ ScrollLeft
    \/ ScrollDown
    \/ ScrollUp
    \/ ScrollTop
    \/ ScrollBottom
    \/ ScrollStart
    \/ ScrollEnd

\* scroll operations and render passes (set_frame) in any order
SpecScroll == InitScroll /\ [][NextScroll]_vars

\* the state after App::new and one set_frame; the frame then stays fixed
InitFixed ==
    /\ args \in Inputs
    /\ overflow_checks \in BOOLEAN
    /\ \E rect \in Rects : app = set_frame(new(args, overflow_checks), rect)
    /\ pc = "running"
    /\ last_op = "set_frame"
    /\ overflowed = FALSE
    /\ calls = <<>>
    /\ LoopStart("harness")
    /\ PureStart

NextFixed ==
    \/ ScrollRight
    \/ ScrollLeft
    \/ ScrollDown
    \/ ScrollUp
    \/ ScrollTop
    \/ ScrollBottom
    \/ ScrollStart
    \/ ScrollEnd

SpecFixed == InitFixed /\ [][NextFixed]_vars

\* a fixed frame, then only single horizontal steps
InitStep ==
    /\ overflow_checks \in BOOLEAN
    /\ \/ /\ args \in Inputs
          /\ \E w \in 0..MaxFrameWidth :
                app = set_frame(new(args, overflow_checks), [height |-> 0, width |-> w])
       \/ /\ args = ScenarioArgs
          /\ app = set_frame(new(args, overflow_checks), ScenarioRect)
    /\ pc = "running"
    /\ last_op = "set_frame"
    /\ overflowed = FALSE
    /\ calls = <<>>
    /\ LoopStart("harness")
    /\ PureStart

NextStep == StepScrollRight \/ StepScrollLeft

SpecStep == InitStep /\ [][NextStep]_vars

\* App::new on one sequence of every length up to MaxRulerLen
InitRuler ==
    /\ args \in RulerInputs
    /\ overflow_checks \in BOOLEAN
    /\ app = NoApp
    /\ pc = "new"
    /\ last_op = "none"
    /\ overflowed = FALSE
    /\ calls = <<>>
    /\ LoopStart("harness")
    /\ PureStart

NextRuler == New

SpecRuler == InitRuler /\ [][NextRuler]_vars

\* App::new on sequences of mixed characters
InitAlphabet ==
    /\ args \in AlphabetInputs
    /\ overflow_checks \in BOOLEAN
    /\ app = NoApp
    /\ pc = "new"
    /\ last_op = "none"
    /\ overflowed = FALSE
    /\ calls = <<>>
    /\ LoopStart("harness")
    /\ PureStart

NextAlphabet == New

SpecAlphabet == InitAlphabet /\ [][NextAlphabet]_vars

\* App::new on inputs longer than u16 can count
InitWide ==
    /\ args \in WideInputs
    /\ overflow_checks \in BOOLEAN
    /\ app = NoApp
    /\ pc = "new"
    /\ last_op = "none"
    /\ overflowed = FALSE
    /\ calls = <<>>
    /\ LoopStart("harness")
    /\ PureStart

NextWide == New

SpecWide == InitWide /\ [][NextWide]_vars

\* colorize on its own, on every character of ColorChars under both alphabets
InitColorize ==
    /\ args = InputArgs(0, 0)
    /\ overflow_checks \in BOOLEAN
    /\ app = NoApp
    /\ pc = "new"
    /\ last_op = "none"
    /\ overflowed = FALSE
    /\ calls = <<>>
    /\ LoopStart("harness")
    /\ paint \in [alphabet : {"Nucleic", "Protein"}, c : ColorChars, color : {"none"}]
    /\ rl = NoRulerLoop

NextColorize == Colorize

SpecColorize == InitColorize /\ [][NextColorize]_vars

\* the ruler loop on its own, for short alignments and for the longest
\* maxlen a u16 holds
InitRulerLoop ==
    /\ args = InputArgs(0, 0)
    /\ overflow_checks \in BOOLEAN
    /\ app = NoApp
    /\ pc = "new"
    /\ last_op = "none"
    /\ overflowed = FALSE
    /\ calls = <<>>
    /\ LoopStart("harness")
    /\ paint = NoPaint
    /\ rl \in {RulerLoopStart(m) : m \in (0..MaxShortRuler) \cup {U16Max}}

NextRulerLoop == RulerIterate \/ RulerExit

SpecRulerLoop == InitRulerLoop /\ [][NextRulerLoop]_vars

\* render_view from its first line, every key, time in whole ticks
InitLoop ==
    /\ args \in LoopInputs
    /\ overflow_checks \in BOOLEAN
    /\ app = NoApp
    /\ pc = "new"
    /\ last_op = "none"
    /\ overflowed = FALSE
    /\ calls = <<>>
    /\ LoopStart("enable_raw")
    /\ PureStart

LoopDraw == Draw(LoopRects, {0})

LoopPoll == Poll(TickRate)

LoopRead == Read(Keys)

NextLoop ==
    \/ EnableRaw
    \/ EnterAlt
    \/ TerminalNew
    \/ AppNew
    \/ LoopDraw
    \/ LoopPoll
    \/ LoopRead
    \/ RestoreRaw
    \/ RestoreLeave
    \/ ShowCursor
    \/ Report

SpecLoop == InitLoop /\ [][NextLoop]_vars

\* render_view with time in steps of TimeQuantum: a render pass takes up to
\* MaxDrawTime, an event arrives at any step of the wait
TickRects == {[height |-> 1, width |-> MaxLoopFrame], [height |-> MaxLoopFrame, width |-> 1]}

TickKeys == {"q", "t", "h", "r", "Up", "Down", "Left", "Right",
             "PageUp", "PageDown", "Home", "End"}

InitTick ==
    /\ args = InputArgs(MaxLoopSeqs, MaxLoopSeqLen)
    /\ overflow_checks \in BOOLEAN
    /\ app = NoApp
    /\ pc = "new"
    /\ last_op = "none"
    /\ overflowed = FALSE
    /\ calls = <<>>
    /\ LoopStart("enable_raw")
    /\ PureStart

TickDraw == Draw(TickRects, {k * TimeQuantum : k \in 0..(MaxDrawTime \div TimeQuantum)})

TickPoll == Poll(TimeQuantum)

TickRead == Read(TickKeys)

NextTick ==
    \/ EnableRaw
    \/ EnterAlt
    \/ TerminalNew
    \/ AppNew
    \/ TickDraw
    \/ TickPoll
    \/ TickRead
    \/ RestoreRaw
    \/ RestoreLeave
    \/ ShowCursor
    \/ Report

SpecTick == InitTick /\ [][NextTick]_vars

----------------------------------------------------------------------------
(* The bounds of the specification, in unbounded integer arithmetic *)

Max0(n) == IF n > 0 THEN n ELSE 0

Min(m, n) == IF m < n THEN m ELSE n

\* max(0, n_seqs - frame_height)
YBound(a) == Max0(a.nseqs - a.frame_height)

\* max(0, max_len - usable_width), usable_width = frame_width - 2
XBound(a) == Max0(a.maxlen - (a.frame_width - 2))

\* the same bound with the usable width saturating at 0 where frame_width < 2
XBoundSaturating(a) == Max0(a.maxlen - Max0(a.frame_width - 2))

----------------------------------------------------------------------------
(* Claims *)

\* C1: with a fixed frame and starting from y_scroll = 0, after every scroll
\* operation 0 <= y_scroll <= max(0, n_seqs - frame_height).
C1_VerticalBoundFixedFrame ==
    0 <= app.yscroll /\ app.yscroll <= YBound(app)

\* scroll_down has stepped up to a non-zero vertical bound
C1_Witness ==
    last_op = "scroll_down" /\ app.yscroll > 0 /\ app.yscroll = YBound(app)

\* C2: with a fixed frame of width >= 2 and starting from x_scroll = 0, after
\* every scroll operation 0 <= x_scroll <= max(0, max_len - (frame_width - 2)).
C2_HorizontalBoundFixedFrame ==
    app.frame_width >= 2 => 0 <= app.xscroll /\ app.xscroll <= XBound(app)

\* scroll_right has stepped up to a non-zero horizontal bound
C2_Witness ==
    /\ last_op = "scroll_right"
    /\ app.frame_width >= 2
    /\ app.xscroll > 0
    /\ app.xscroll = XBound(app)

\* C3: in every state reachable by scroll operations and set_frame calls in
\* any order, both scroll offsets lie within the bounds computed from the
\* frame dimensions current in that state.
C3_BoundsAfterEveryMutation ==
    /\ 0 <= app.yscroll /\ app.yscroll <= YBound(app)
    /\ 0 <= app.xscroll /\ app.xscroll <= XBound(app)

\* C4: no scroll operation performs u16 arithmetic that leaves 0..65535,
\* for any frame width including 0 and 1.
C4_NoOverflowInScroll ==
    last_op \in {"scroll_up", "scroll_down", "scroll_left", "scroll_right",
                 "scroll_bottom", "scroll_end"} => ~overflowed

\* C5: scroll_down adds 1 to y_scroll exactly when y_scroll is below
\* max(0, n_seqs - frame_height) for the frame height last recorded, and
\* otherwise leaves it; scroll_up subtracts 1 when y_scroll > 0 and leaves 0.
C5_VerticalSingleStep ==
    [][/\ ScrollDown =>
            app'.yscroll = IF app.yscroll < YBound(app)
                           THEN app.yscroll + 1 ELSE app.yscroll
       /\ ScrollUp =>
            app'.yscroll = IF app.yscroll > 0 THEN app.yscroll - 1 ELSE 0]_vars

\* after a render pass recorded a non-zero frame height, scroll_down has
\* stepped up to the bound that frame height gives
C5_Witness ==
    /\ last_op = "scroll_down"
    /\ app.frame_height > 0
    /\ app.yscroll > 0
    /\ app.yscroll = YBound(app)

\* only scroll_right has been called so far
OnlyRight == \A k \in 1..Len(calls) : calls[k] = "scroll_right"

\* C6: with a fixed frame of width >= 2 and starting from x_scroll = 0, after
\* n calls of scroll_right x_scroll is min(n, bound): each call adds exactly 1
\* below the bound and none changes it at the bound; scroll_left subtracts 1
\* when x_scroll > 0 and leaves 0.
C6_HorizontalStepping ==
    /\ [](app.frame_width >= 2 /\ OnlyRight
            => app.xscroll = Min(Len(calls), XBound(app)))
    /\ [][app.frame_width >= 2 /\ StepScrollRight =>
            app'.xscroll = IF app.xscroll < XBound(app)
                           THEN app.xscroll + 1 ELSE app.xscroll]_vars
    /\ [][StepScrollLeft =>
            app'.xscroll = IF app.xscroll > 0 THEN app.xscroll - 1 ELSE 0]_vars

\* the scenario (max_len = 9, frame_width = 5): eight scroll_right calls
\* have been made and x_scroll stands at the bound 6
C6_Witness ==
    /\ args = ScenarioArgs
    /\ OnlyRight
    /\ Len(calls) = 8
    /\ XBound(app) = 6
    /\ app.xscroll = 6

\* C7: scroll_top sets y_scroll = 0, scroll_bottom sets it to
\* max(0, n_seqs - frame_height), scroll_start sets x_scroll = 0 and
\* scroll_end sets it to max(0, max_len - (frame_width - 2)), whichever way
\* frame_width - 2 is read where frame_width < 2.
C7_JumpsLandOnExtremes ==
    /\ last_op = "scroll_top" => app.yscroll = 0
    /\ last_op = "scroll_bottom" => app.yscroll = YBound(app)
    /\ last_op = "scroll_start" => app.xscroll = 0
    /\ last_op = "scroll_end" =>
            app.xscroll = XBound(app) \/ app.xscroll = XBoundSaturating(app)

\* C8: scroll_top then scroll_bottom gives the state scroll_bottom alone
\* gives, and each jump applied twice gives the state it gives applied once
\* (a jump that panics leaves no state: it panics in both runs alike).
C8_JumpsIdempotent ==
    pc = "running" =>
        /\ scroll_bottom(scroll_top(app)) = scroll_bottom(app)
        /\ scroll_bottom(scroll_bottom(app)) = scroll_bottom(app)
        /\ scroll_top(scroll_top(app)) = scroll_top(app)
        /\ scroll_start(scroll_start(app)) = scroll_start(app)
        /\ scroll_end(scroll_end(app)) = scroll_end(app)
        /\ scroll_end_overflows(scroll_end(app)) = scroll_end_overflows(app)

\* scroll_bottom has moved the offset off the top: from here scroll_top
\* moves it, and scroll_bottom after that brings this state back
C8_Witness ==
    /\ pc = "running"
    /\ last_op = "scroll_bottom"
    /\ scroll_top(app) # app
    /\ scroll_bottom(scroll_top(app)) = app

\* C9 as stated: when max_len < frame_width, scroll_end yields x_scroll = 0.
C9_ScrollEndNarrowerThanFrame ==
    last_op = "scroll_end" /\ app.maxlen < app.frame_width => app.xscroll = 0

\* C9 as amended: when max_len <= frame_width - 2 (the content fits between
\* the two border cells), scroll_end yields x_scroll = 0.
C9_ScrollEndFitsInsideBorders ==
    last_op = "scroll_end" /\ app.maxlen + 2 <= app.frame_width => app.xscroll = 0

\* scroll_end has acted on non-empty content that fits between the borders
C9_Witness ==
    /\ last_op = "scroll_end"
    /\ app.maxlen > 0
    /\ app.maxlen + 2 <= app.frame_width
    /\ app.xscroll = 0

\* C10: the ruler built by App::new has length exactly max_len + 1.
C10_RulerLength ==
    last_op = "new" => pc = "running" /\ Len(app.ruler) = app.maxlen + 1

\* the number of decimal digits of p >= 1
NumDigits(p) == CHOOSE d \in 1..5 : Pow10(d - 1) <= p /\ p < Pow10(d)

\* the k-th decimal digit of p, k = 0 for the leading one
DigitAt(p, k) == DigitChars[((p \div Pow10(NumDigits(p) - 1 - k)) % 10) + 1]

\* the multiples of ten p with 10 <= p <= m
Tens(m) == {p \in 10..m : p % 10 = 0}

\* C11: for every multiple of ten p with 10 <= p <= max_len the digits of p
\* stand at ruler indices p .. p + digits(p) - 1 (0-based), every other index
\* holds a space, and no two numerals overlap.
C11_RulerNumerals ==
    last_op = "new" /\ pc = "running" =>
        LET r == app.ruler
            covered(idx) == {p \in Tens(app.maxlen) : p <= idx /\ idx < p + NumDigits(p)}
        IN  /\ \A p \in Tens(app.maxlen) :
                 /\ p + NumDigits(p) <= Len(r)
                 /\ \A k \in 0..(NumDigits(p) - 1) : r[p + k + 1] = DigitAt(p, k)
            /\ \A idx \in 0..(Len(r) - 1) :
                 /\ Cardinality(covered(idx)) <= 1
                 /\ covered(idx) = {} => r[idx + 1] = " "

\* the ruler for max_len = 25: "10" at index 10 and "20" at index 20
C11_Witness ==
    /\ last_op = "new"
    /\ pc = "running"
    /\ app.maxlen = 25
    /\ SubSeq(app.ruler, 11, 12) = <<"1", "0">>
    /\ SubSeq(app.ruler, 21, 22) = <<"2", "0">>

RestorationSteps == {"disable_raw_mode", "leave_alternate_screen", "show_cursor"}

\* C12: whenever the event loop has ended (quit key, draw error, input error),
\* render_view has attempted all three restoration steps by the time it
\* returns, whatever the outcome of each step.
C12_TeardownAttemptsAllSteps ==
    loc = "returned" /\ res # "none" => attempted = RestorationSteps

\* C13: when a setup step fails after raw mode was enabled, render_view has
\* attempted to disable raw mode by the time it returns the error.
C13_SetupFailureRestores ==
    loc = "returned" /\ ret \in {"err_enter_alt", "err_terminal_new"} =>
        "disable_raw_mode" \in attempted

\* C14: when the event loop ended on a draw error or an input error,
\* render_view returns an error and not success.
C14_LoopErrorsPropagate ==
    loc = "returned" /\ res \in {"err_draw", "err_input"} => ret # "ok"

\* C15 as stated: when an event is accepted after a key event was dispatched,
\* exactly one render pass has run since that dispatch.
C15_ExactlyOneRender ==
    loc = "read" /\ dispatched => renders = 1

\* C15, amended: whenever run_app polls for or reads an event, at least one
\* render pass has run since the last dispatch (and since the start of the
\* loop), and the last render pass read the model state as it is now.
C15_RenderBeforeInput ==
    loc \in {"poll", "read"} =>
        /\ renders >= 1
        /\ drawn = View(app)

\* `t` was dispatched, a poll timed out, and the next event is accepted after
\* a second render pass that shows the dark flag
C15_Witness ==
    /\ loc = "read"
    /\ dispatched
    /\ renders = 2
    /\ app.dark
    /\ drawn = View(app)

\* the key bindings as the specification lists them
BoundMutator(k, a) ==
    CASE k = "Up"          -> scroll_up(a)
      [] k = "Down"        -> scroll_down(a)
      [] k = "Left"        -> scroll_left(a)
      [] k = "Right"       -> scroll_right(a)
      [] k = "PageUp"      -> scroll_top(a)
      [] k = "PageDown"    -> scroll_bottom(a)
      [] k = "Home"        -> scroll_start(a)
      [] k = "End"         -> scroll_end(a)
      [] k \in {"t", "T"}  -> toggle_dark(a)
      [] k \in {"h", "H"}  -> toggle_help(a)
      [] k \in {"r", "R"}  -> toggle_highlight(a)
      [] OTHER             -> a

\* C16: the dispatch of q/Q ends the loop and leaves the model as it is; the
\* dispatch of any other key leaves the loop running, with the model changed
\* by one call of the key's own mutator, or unchanged when the key is unbound.
C16_KeyDispatch ==
    [][\A k \in Keys :
          Dispatch(k) =>
              IF k \in {"q", "Q"}
              THEN loc' = "restore_raw" /\ app' = app
              ELSE loc' = loop_head /\ app' = BoundMutator(k, app)]_vars

\* C17: the dispatch of `?` flips show_help.
C17_QuestionMarkTogglesHelp ==
    [][Dispatch("?") => app'.show_help = ~app.show_help]_vars

\* the struct fields other than flag f are the same in a and b, and f differs
FlipsOnly(f, a, b) ==
    /\ b[f] = ~a[f]
    /\ \A g \in DOMAIN a \ {f} : b[g] = a[g]

\* C18: from every model state the viewer reaches, each toggle applied twice
\* gives the state back, each toggle applied once flips its own flag and
\* nothing else, and any two toggles give the same state in either order.
C18_TogglesInvolutiveIndependent ==
    pc = "running" =>
        /\ toggle_dark(toggle_dark(app)) = app
        /\ toggle_help(toggle_help(app)) = app
        /\ toggle_highlight(toggle_highlight(app)) = app
        /\ FlipsOnly("dark", app, toggle_dark(app))
        /\ FlipsOnly("show_help", app, toggle_help(app))
        /\ FlipsOnly("highlight_background", app, toggle_highlight(app))
        /\ toggle_dark(toggle_help(app)) = toggle_help(toggle_dark(app))
        /\ toggle_dark(toggle_highlight(app)) = toggle_highlight(toggle_dark(app))
        /\ toggle_help(toggle_highlight(app)) = toggle_highlight(toggle_help(app))

\* the help was just toggled on by a key, after the other two flags were
\* toggled away from their initial values and the view was scrolled
C18_Witness ==
    /\ pc = "running"
    /\ last_op = "toggle_help"
    /\ app.show_help
    /\ app.dark # new(args, overflow_checks).dark
    /\ app.highlight_background # new(args, overflow_checks).highlight_background
    /\ app.yscroll > 0

\* C19: after a render pass of a panel at least 2 cells high and wide, the
\* recorded frame dimensions are the panel's dimensions minus the border.
C19_FrameIsInnerPanel ==
    loc \in {"poll", "read"} /\ panel.height >= 2 /\ panel.width >= 2 =>
        /\ app.frame_height = panel.height - 2
        /\ app.frame_width = panel.width - 2

\* C20: in every iteration the poll timeout is max(0, tick_rate - elapsed),
\* at most tick_rate; an iteration starts with less than a tick elapsed since
\* last_tick; and the time since the last render pass began never exceeds
\* one tick (a render pass taking no longer than MaxDrawTime).
C20_PollBoundedByTick ==
    /\ loc = "poll" =>
          /\ timeout = Max0(TickRate - elapsed)
          /\ timeout <= TickRate
    /\ loc = "draw" => elapsed < TickRate
    /\ since_render <= TickRate

\* an idle tick: no key was dispatched, the poll timed out a whole tick after
\* the render pass began, the deadline is reset and the next render is due
C20_Witness ==
    /\ loc = "draw"
    /\ ~dispatched
    /\ renders >= 1
    /\ since_render = TickRate
    /\ elapsed = 0

\* C21: the alphabet App::new detects is Protein exactly when some character
\* of some sequence, in upper case, is outside {A, T, C, G, U, -}, and
\* Nucleic otherwise (so for no sequences and for empty sequences).
C21_AlphabetClassification ==
    last_op = "new" /\ pc = "running" =>
        LET outside == \E k \in 1..Len(args.seqs) : \E j \in 1..Len(args.seqs[k]) :
                          to_ascii_uppercase(args.seqs[k][j]) \notin {"A", "T", "C", "G", "U", "-"}
        IN  app.alphabet = IF outside THEN "Protein" ELSE "Nucleic"

\* the collection ["ACDE"] is classified as Protein
C21_Witness ==
    /\ last_op = "new"
    /\ pc = "running"
    /\ args.seqs = <<<<"A", "C", "D", "E">>>>
    /\ app.alphabet = "Protein"

\* C22: after construction maxlen is the greatest sequence length (0 without
\* sequences) and nseqs is the number of sequences, whatever their size.
C22_ExactDimensions ==
    last_op = "new" /\ pc = "running" =>
        /\ app.maxlen = SeqMax({Len(args.seqs[k]) : k \in 1..Len(args.seqs)})
        /\ app.nseqs = Len(args.seqs)

\* C23: in every state of the running viewer the content fields of the model
\* (ids, seqs, title, maxlen, nseqs, alphabet, ruler) are what App::new made
\* of the arguments, and ids and seqs are as long as each other if the
\* arguments were.
C23_ContentImmutable ==
    pc = "running" =>
        LET built == new(args, overflow_checks)
        IN  /\ app.ids = args.ids
            /\ app.seqs = args.seqs
            /\ app.title = args.title
            /\ app.maxlen = built.maxlen
            /\ app.nseqs = built.nseqs
            /\ app.alphabet = built.alphabet
            /\ app.ruler = built.ruler
            /\ Len(args.ids) = Len(args.seqs) => Len(app.ids) = Len(app.seqs)

\* after keys, a toggle and a resize to the taller frame (yscroll > 0 needs
\* the lower frame first)
C23_Witness ==
    /\ pc = "running"
    /\ dispatched
    /\ app.yscroll > 0
    /\ app.xscroll > 0
    /\ ~app.dark
    /\ app.frame_height = MaxLoopFrame
    /\ app.frame_width = 1

VerticalOps == {"scroll_up", "scroll_down", "scroll_top", "scroll_bottom"}

HorizontalOps == {"scroll_left", "scroll_right", "scroll_start", "scroll_end"}

\* C27: a step that applies a vertical scroll operation leaves xscroll as it
\* is, one that applies a horizontal scroll operation leaves yscroll as it
\* is, and neither changes the three flags nor the frame dimensions.
C27_AxisSeparation ==
    [][loc = "read" /\ last_op' \in VerticalOps \cup HorizontalOps =>
          /\ last_op' \in VerticalOps => app'.xscroll = app.xscroll
          /\ last_op' \in HorizontalOps => app'.yscroll = app.yscroll
          /\ app'.dark = app.dark
          /\ app'.show_help = app.show_help
          /\ app'.highlight_background = app.highlight_background
          /\ app'.frame_height = app.frame_height
          /\ app'.frame_width = app.frame_width]_vars

\* scroll_top was applied where xscroll is not 0 and a flag is not at its
\* initial value
C27_Witness ==
    /\ pc = "running"
    /\ last_op = "scroll_top"
    /\ event = KeyEvent("PageUp")
    /\ app.xscroll > 0
    /\ ~app.dark

\* C28: an iteration whose poll times out, and an iteration whose event is
\* not a key event, leave the scroll offsets and the three flags as they are
\* and go on with the next render pass.
C28_OnlyKeysMutate ==
    [][\/ loc = "poll" /\ loc' # "read" /\ res' = res
       \/ loc = "read" /\ event'.kind \in {"mouse", "resize"}
       => /\ View(app') = View(app)
          /\ pc' = pc
          /\ loc' = "draw"]_vars

\* a mouse event was read after a key was dispatched and a tick went by idle;
\* the scroll offset and the flag the keys had set are still there
C28_Witness ==
    /\ loc = "draw"
    /\ event.kind = "mouse"
    /\ dispatched
    /\ renders = 2
    /\ app.yscroll > 0
    /\ ~app.dark

\* the colour tables of the specification, on upper-case characters
TableColor(alphabet, u) ==
    IF alphabet = "Nucleic"
    THEN CASE u = "A" -> "Red" [] u = "C" -> "Yellow" [] u = "G" -> "Blue"
           [] u = "T" -> "Green" [] u = "U" -> "Green" [] OTHER -> "White"
    ELSE CASE u \in {"A", "I", "L", "M", "F", "W", "V"} -> "Blue"
           [] u \in {"K", "R"} -> "Red"
           [] u \in {"E", "D"} -> "Magenta"
           [] u \in {"N", "Q", "S", "T"} -> "Green"
           [] u = "C" -> "LightMagenta"
           [] u = "G" -> "LightRed"
           [] u = "P" -> "Yellow"
           [] u \in {"H", "Y"} -> "Cyan"
           [] OTHER -> "White"

\* C24: colorize gives every character a colour, the same as it gives the
\* character's upper case, and the colour is that of the tables.
C24_ColorizeTables ==
    paint # NoPaint /\ paint.color # "none" =>
        /\ paint.color = colorize(paint.alphabet, to_ascii_uppercase(paint.c))
        /\ paint.color = TableColor(paint.alphabet, to_ascii_uppercase(paint.c))

\* a lower-case c under Protein is bright magenta
C24_Witness ==
    paint = [alphabet |-> "Protein", c |-> "c", color |-> "LightMagenta"]

\* C25: in the ruler loop no arithmetic leaves the range of u16 and the loop
\* is left after at most maxlen iterations.
C25_RulerLoopTerminates ==
    rl # NoRulerLoop =>
        /\ ~rl.overflowed
        /\ rl.iterations <= rl.maxlen
        /\ rl.at = "while" /\ rl.i <= rl.maxlen => rl.iterations < rl.maxlen

\* C26: after scroll_bottom with a recorded panel height h >= 3 (h - 2 rows
\* inside the border), the last sequence, row nseqs - 1, is inside the
\* visible rows yscroll .. yscroll + h - 3.
C26_LastRowVisible ==
    last_op = "scroll_bottom" /\ pc = "running" /\ app.frame_height >= 3 /\ app.nseqs >= 1 =>
        /\ app.yscroll <= app.nseqs - 1
        /\ app.nseqs - 1 < app.yscroll + (app.frame_height - 2)

=============================================================================
